---- MODULE Spec2Model ----
(***************************************************************************)
(* Model of visual-mtr's network.Scanner (src/network/scanner.go): path    *)
(* discovery (performTraceroute), the continuous monitor (monitorLoop,     *)
(* pingAllHops, pingHop), the rolling latency window and Stop(), with a    *)
(* caller of GetHops() and the consumer of the updates (src/main.go,       *)
(* handleUpdates).                                                         *)
(*                                                                         *)
(* Latencies are integers (milliseconds); an average is an exact rational  *)
(* <<numerator, denominator>> in lowest terms, so float64 rounding is not  *)
(* modelled.                                                               *)
(***************************************************************************)
EXTENDS Integers, Sequences, FiniteSets, TLC

VARIABLES
    hops,        \* s.hops
    updates,     \* s.updates: the HopUpdates sent and not yet received
    closeCount,  \* how many times close(s.updates) has been executed
    ctxDone,     \* s.ctx is cancelled
    conn,        \* s.conn: "nil", or the state ("open", "closed") of its PacketConn
    stopCalled,  \* s.stopCalled
    crash,       \* "none", or the panic / log.Fatalf that ended the process
    status,      \* the status stream: the ScannerStatus values emitted so far
    startPc,     \* position of the goroutine running Start()
    startErr,    \* the error Start() returned ("" for nil, "-" not returned)
    ttl,         \* performTraceroute: loop variable
    thops,       \* performTraceroute: local slice hops
    probes,      \* history: the probes the running performTraceroute has sent,
                 \* each with the answer that added a hop ("none" if none did)
                 \* and the sequence number of the probe that answer was for
    monPc,       \* position of the monitorLoop goroutine
    monI,        \* pingAllHops: loop index (1-based)
    monHop,      \* pingAllHops: loop variable hop (a copy of s.hops[i])
    monLatency,  \* pingAllHops: latency returned by pingHop
    monLoss,     \* pingAllHops: loss returned by pingHop
    passes,      \* number of pingAllHops calls begun
    net,         \* environment: the probe results of the first monitoring probes,
                 \* which a periodic network repeats
    misses,      \* history: per hop, how many monitoring probes in a row (counted
                 \* up to MaxLatencyHistory) were not answered by an echo reply
    stopPc,      \* position of each Stop() call
    stopSeq,     \* history: the Stop() calls so far ran one after the other,
                 \* with no Start() or monitor step in between
    view,        \* a caller of GetHops(): the length of the slice it was given
                 \* and, as history, what the slice held at that moment
    vmHops,      \* main.go: vm.hops, the list the consumer keeps
    vmLast,      \* history: the HopUpdate handleUpdates processed last
    vmScanner,   \* main.go: vm.scanner, "nil" or "set" (the session's scanner)
    handlerPc,   \* main.go: position of the handleUpdates goroutine
    received,    \* how many of the updates sent handleUpdates has received
    onStopPc     \* main.go: position of the onStop() call

sharedVars == <<hops, updates, closeCount, ctxDone, conn, stopCalled, crash, status>>
startVars == <<startPc, startErr, ttl, thops, probes>>
monVars == <<monPc, monI, monHop, monLatency, monLoss, passes, net, misses>>
stopVars == <<stopPc, stopSeq>>
sessionVars == <<vmScanner, handlerPc, received, onStopPc>>
appVars == <<view, vmHops, vmLast, sessionVars>>

vars == <<sharedVars, startVars, monVars, stopVars, appVars>>

-----------------------------------------------------------------------------
(* Program constants *)

MaxLatencyHistory == 60
MaxTTL == 30
UpdatesCap == 100

(* Bounds of the model *)

MaxHops == 2        \* hops one discovery run may find (Spec)
MaxPasses == 1      \* monitoring passes (Spec)
MaxStops == 2       \* Stop() calls (Spec)
WindowHops == 2     \* hops one discovery run may find (SpecWindow)
Period == 3         \* period of the monitored network's behaviour (SpecWindow)
SettleAfter == 3    \* probes before the monitored network settles (SpecSettle)
MaxLate == 1        \* hop-limits by which an answer may come late (SpecStale)
MaxList == 2        \* length of the consumer's list at the start (SpecConsumer)
MaxIndex == 3       \* highest index of an update received (SpecConsumer)
WindowPasses == MaxLatencyHistory + 2   \* monitoring passes (SpecWindow)
FillPasses == UpdatesCap                \* monitoring passes (SpecFull)

Latencies == {10, 40}    \* round-trip times measured by pingHop, in ms
TraceLatencies == {20}   \* round-trip times measured by performTraceroute, in ms
Routers == {"r1"}
Destination == "dst"
SessionID == "own"

-----------------------------------------------------------------------------
(* Exact rationals *)

RECURSIVE GCD(_, _)
GCD(a, b) == IF b = 0 THEN a ELSE GCD(b, a % b)

Rat(n, d) == <<n \div GCD(n, d), d \div GCD(n, d)>>

Zero == <<0, 1>>

-----------------------------------------------------------------------------
(* types: NetworkHop, HopUpdate *)

NetworkHop(ip, avg, loss, hist) ==
    [IP |-> ip, AvgLatency |-> avg, LossPercent |-> loss, LatencyHistory |-> hist]

HopUpdate(i, hop) == [Index |-> i, Hop |-> hop]

\* extractIPFromAddr: the peer of a raw ICMP read is a *net.IPAddr, whose
\* String() has no port, so SplitHostPort fails and the string is returned.
extractIPFromAddr(addr) == addr

-----------------------------------------------------------------------------
(* calculateAverageLatency *)

RECURSIVE SumPositive(_)
SumPositive(history) ==
    IF history = <<>> THEN 0
    ELSE (IF Head(history) > 0 THEN Head(history) ELSE 0) + SumPositive(Tail(history))

RECURSIVE CountPositive(_)
CountPositive(history) ==
    IF history = <<>> THEN 0
    ELSE (IF Head(history) > 0 THEN 1 ELSE 0) + CountPositive(Tail(history))

\* Mutant: the timeouts are counted in the divisor
calculateAverageOverAll(history) ==
    IF Len(history) = 0 THEN Zero
    ELSE IF CountPositive(history) = 0 THEN Zero
    ELSE Rat(SumPositive(history), Len(history))

calculateAverageLatency(history) ==
    IF Len(history) = 0 THEN Zero
    ELSE IF CountPositive(history) = 0 THEN Zero
    ELSE Rat(SumPositive(history), CountPositive(history))

\* Mutant: a full window is not trimmed
newHistoryNoEvict(history, latency) ==
    IF latency > 0 THEN Append(history, latency) ELSE Append(history, -1)

\* Mutant: the newest entry of a full window is evicted
newHistoryEvictNewest(history, latency) ==
    LET kept == IF Len(history) >= MaxLatencyHistory
                THEN SubSeq(history, 1, Len(history) - 1)
                ELSE history
    IN  IF latency > 0 THEN Append(kept, latency) ELSE Append(kept, -1)

\* Mutant: a probe without a latency leaves the window as it is
newHistorySkipsFailures(history, latency) ==
    LET kept == IF Len(history) > 0
                THEN IF Len(history) >= MaxLatencyHistory
                     THEN SubSeq(history, 2, Len(history))
                     ELSE history
                ELSE <<>>
    IN  IF latency > 0 THEN Append(kept, latency) ELSE history

(* pingAllHops, lines 134-150: the rolling window *)
newHistory(history, latency) ==
    LET kept == IF Len(history) > 0
                THEN IF Len(history) >= MaxLatencyHistory
                     THEN SubSeq(history, 2, Len(history))
                     ELSE history
                ELSE <<>>
    IN  IF latency > 0 THEN Append(kept, latency) ELSE Append(kept, -1)

\* Mutant: the average is taken over the window before the new sample
updatedHopStaleAverage(hop, latency, loss) ==
    NetworkHop(hop.IP, calculateAverageLatency(hop.LatencyHistory),
               loss, newHistory(hop.LatencyHistory, latency))

\* Mutant: the updated hop is built without the address
updatedHopDropsIP(hop, latency, loss) ==
    NetworkHop("", calculateAverageLatency(newHistory(hop.LatencyHistory, latency)),
               loss, newHistory(hop.LatencyHistory, latency))

(* pingAllHops, lines 152-160 *)
updatedHop(hop, latency, loss) ==
    NetworkHop(hop.IP, calculateAverageLatency(newHistory(hop.LatencyHistory, latency)),
               loss, newHistory(hop.LatencyHistory, latency))

-----------------------------------------------------------------------------
(* What a read of the ICMP socket can return *)

Timeout == [kind |-> "timeout"]
ParseError == [kind |-> "parseerror"]
EchoReply(id, peer, lat) == [kind |-> "echoreply", id |-> id, peer |-> peer, lat |-> lat]
TimeExceeded(peer, lat) == [kind |-> "timeexceeded", peer |-> peer, lat |-> lat]
Unreachable == [kind |-> "unreachable"]
OtherType == [kind |-> "other"]

IDs == {SessionID, "other"}

\* Reads that add no hop in discovery
QuietReads == {Timeout, ParseError, Unreachable, OtherType}
                \cup {EchoReply("other", Destination, l) : l \in TraceLatencies}

\* Reads that add a hop in discovery
HopReads == {EchoReply(SessionID, Destination, l) : l \in TraceLatencies}
              \cup {TimeExceeded(p, l) : p \in Routers, l \in TraceLatencies}

\* Reads of discovery that answer an earlier probe of the run, one that got
\* no answer within its own deadline: late is how many hop-limits earlier
LateReads ==
    {[kind |-> "timeexceeded", peer |-> p, lat |-> l, late |-> d] :
        p \in Routers, l \in TraceLatencies, d \in 1..MaxLate}
    \cup {[kind |-> "echoreply", id |-> SessionID, peer |-> Destination,
            lat |-> l, late |-> d] : l \in TraceLatencies, d \in 1..MaxLate}

Late(r) == IF "late" \in DOMAIN r THEN r.late ELSE 0

\* Reads that add a hop in discovery when the destination is one hop away
DirectReads == {EchoReply(SessionID, Destination, l) : l \in TraceLatencies}

\* Reads of the monitoring socket
PingReads == {Timeout, ParseError, Unreachable, OtherType}
               \cup {EchoReply(id, p, l) : id \in IDs, p \in Routers \cup {Destination},
                                           l \in Latencies}
               \cup {TimeExceeded(p, l) : p \in Routers, l \in Latencies}

\* Reads of the monitoring socket when nothing answers
SilentReads == {Timeout}

\* Reads of the monitoring socket in the sessions that are stopped (Spec)
ShortReads == {Timeout, Unreachable}
                \cup {EchoReply(SessionID, Destination, l) : l \in TraceLatencies}

-----------------------------------------------------------------------------
(* NewScanner *)

NoHop == NetworkHop("", Zero, 0, <<>>)

(* The status stream. scanner.go as given has no status code; main.go reads
   scanner.Status() and names the values. What is emitted, and when, follows
   the specification: Start emits Tracing, then Pinging; Stop emits Stopped. *)
StatusTracing == "Tracing"
StatusPinging == "Pinging"
StatusStopped == "Stopped"

\* Mutant: a status is put in front of those not yet read
EmitStatusInFront(st) == status' = <<st>> \o status

EmitStatus(st) == status' = Append(status, st)

NewScanner ==
    /\ hops = <<>>
    /\ updates = <<>>
    /\ closeCount = 0
    /\ ctxDone = FALSE
    /\ conn = "nil"
    /\ stopCalled = FALSE
    /\ crash = "none"
    /\ status = <<>>
    /\ startPc = "idle"
    /\ startErr = "-"
    /\ ttl = 0
    /\ thops = <<>>
    /\ probes = <<>>
    /\ monPc = "off"
    /\ monI = 0
    /\ monHop = NoHop
    /\ monLatency = 0
    /\ monLoss = 0
    /\ passes = 0
    /\ net = <<>>
    /\ misses = [i \in 1..MaxTTL |-> 0]
    /\ stopPc = [i \in 1..MaxStops |-> "idle"]
    /\ stopSeq = [ok |-> TRUE, mark |-> "-"]
    /\ view = [called |-> FALSE, len |-> 0, then |-> <<>>]

\* main.go, NewVisualMTR, line 37
NewVisualMTR ==
    /\ vmHops = <<>>
    /\ vmLast = HopUpdate(-1, NoHop)
    /\ vmScanner = "nil"
    /\ handlerPc = "off"
    /\ received = 0
    /\ onStopPc = "idle"

Init == NewScanner /\ NewVisualMTR

Running == crash = "none"

-----------------------------------------------------------------------------
(* Start and performTraceroute *)

\* Mutant: the resolution error is recorded but discovery goes on
StartResolveGoesOn ==
    /\ Running /\ startPc = "idle"
    /\ \/ startPc' = "listen" /\ startErr' = startErr
       \/ startPc' = "listen" /\ startErr' = "failed to resolve hostname"
    /\ UNCHANGED <<appVars, sharedVars, ttl, thops, probes, monVars, stopVars>>

\* performTraceroute, lines 256-259: net.ResolveIPAddr
StartResolve ==
    /\ Running /\ startPc = "idle"
    /\ \/ startPc' = "listen" /\ startErr' = startErr
       \/ startPc' = "done" /\ startErr' = "failed to resolve hostname"
    /\ UNCHANGED <<appVars, sharedVars, ttl, thops, probes, monVars, stopVars>>

\* performTraceroute, lines 262-273: icmp.ListenPacket. Discovery begins:
\* Tracing is emitted (specification).
StartListen ==
    /\ Running /\ startPc = "listen"
    /\ \/ /\ startPc' = "trace" /\ startErr' = startErr /\ ttl' = 1
          /\ EmitStatus(StatusTracing)
       \/ /\ startPc' = "done" /\ startErr' = "failed to create ICMP connection"
          /\ ttl' = ttl /\ status' = status
    /\ UNCHANGED <<appVars, hops, updates, closeCount, ctxDone, conn, stopCalled, crash,
                   thops, probes, monVars, stopVars>>

\* performTraceroute, lines 282-306: SetTTL or WriteTo fails, log.Fatalf
TraceSendFail ==
    /\ Running /\ startPc = "trace"
    /\ crash' = "fatal: Failed to send message"
    /\ UNCHANGED <<appVars, status, hops, updates, closeCount, ctxDone, conn, stopCalled,
                   startVars, monVars, stopVars>>

\* Mutant: an echo reply adds a hop whatever identifier it carries
AddsHopAnyEcho(r) ==
    \/ r.kind = "echoreply"
    \/ r.kind = "timeexceeded"

\* performTraceroute, lines 332-382: does the read add a hop
AddsHop(r) ==
    \/ r.kind = "echoreply" /\ r.id = SessionID
    \/ r.kind = "timeexceeded"

\* Mutant: a time-exceeded answer is counted as a loss, as pingHop counts it
tracedHopExceededIsLoss(r) ==
    NetworkHop(extractIPFromAddr(r.peer), <<r.lat, 1>>,
               IF r.kind = "timeexceeded" THEN 100 ELSE 0, <<>>)

\* performTraceroute, lines 342 and 362
tracedHop(r) == NetworkHop(extractIPFromAddr(r.peer), <<r.lat, 1>>, 0, <<>>)

\* Mutant: the index is taken one too high
hopIndexOffByOne(hs) == Len(hs)

\* performTraceroute, lines 347 and 368
hopIndex(hs) == Len(hs) - 1

\* Mutant: the loop is not left when the destination has answered
destinationReachedNever(r) == FALSE

\* performTraceroute, lines 356 and 385-387
destinationReached(r) == r.kind = "echoreply" /\ r.id = SessionID

\* NewScanner, line 33: the updates in the buffer of s.updates, those sent
\* and not yet received
Buffered == Len(updates) - received

\* Mutant: the channel has no buffer, a send waits for a receiver
SelectReadyUnbuffered ==
    (IF closeCount > 0 THEN {"panic"} ELSE {})
    \cup (IF ctxDone THEN {"done"} ELSE {})

\* performTraceroute, lines 348-353 and 369-374: the cases of the select that
\* are ready. A send on a closed channel is ready, and panics.
SelectReady ==
    (IF closeCount > 0 THEN {"panic"}
     ELSE IF Buffered < UpdatesCap THEN {"send"} ELSE {})
    \cup (IF ctxDone THEN {"done"} ELSE {})

\* performTraceroute, lines 276-388: one iteration of the loop, on a path whose
\* reads are quietReads (no hop) and, for the first maxHops hops, hopReads
TraceProbeOn(quietReads, hopReads, maxHops) ==
    /\ Running /\ startPc = "trace"
    /\ \E r \in quietReads \cup (IF Len(thops) < maxHops THEN hopReads ELSE {}) :
         /\ Late(r) > 0 => /\ ttl - Late(r) >= 1
                            /\ probes[ttl - Late(r)].answer = "none"
         /\ probes' = Append(probes, [ttl |-> ttl,
                                       reached |-> r.kind = "echoreply" /\ r.id = SessionID,
                                       answer |-> IF r.kind = "timeexceeded"
                                                     \/ (r.kind = "echoreply" /\ r.id = SessionID)
                                                  THEN r.kind ELSE "none",
                                       seq |-> IF r.kind = "timeexceeded"
                                                  \/ (r.kind = "echoreply" /\ r.id = SessionID)
                                               THEN ttl - Late(r) ELSE 0])
         /\ IF ~AddsHop(r)
            THEN /\ ttl' = ttl + 1
                 /\ startPc' = IF ttl + 1 <= MaxTTL THEN "trace" ELSE "store"
                 /\ UNCHANGED <<thops, updates, crash>>
            ELSE /\ thops' = Append(thops, tracedHop(r))
                 /\ \E c \in SelectReady :
                      CASE c = "send" ->
                             /\ updates' = Append(updates,
                                             HopUpdate(hopIndex(thops'), tracedHop(r)))
                             /\ crash' = crash
                             /\ ttl' = IF destinationReached(r) THEN ttl ELSE ttl + 1
                             /\ startPc' = IF ~destinationReached(r) /\ ttl + 1 <= MaxTTL
                                           THEN "trace" ELSE "store"
                        [] c = "done" ->
                             /\ UNCHANGED <<updates, crash, ttl>>
                             /\ startPc' = "store"
                        [] c = "panic" ->
                             /\ crash' = "panic: send on closed channel"
                             /\ UNCHANGED <<updates, ttl, startPc>>
    /\ UNCHANGED <<appVars, status, hops, closeCount, ctxDone, conn, stopCalled, startErr,
                   monVars, stopVars>>

\* performTraceroute, lines 276-388: one iteration, any probe may go unanswered
TraceProbe(hopReads, maxHops) == TraceProbeOn(QuietReads, hopReads, maxHops)

\* Start, line 52. performTraceroute has returned: its locals are gone.
StoreHops ==
    /\ Running /\ startPc = "store"
    /\ hops' = thops
    /\ startPc' = "open"
    /\ ttl' = 0 /\ thops' = <<>> /\ probes' = <<>>
    /\ UNCHANGED <<appVars, status, updates, closeCount, ctxDone, conn, stopCalled, crash,
                   startErr, monVars, stopVars>>

\* Start, lines 55-59
OpenConn ==
    /\ Running /\ startPc = "open"
    /\ \/ conn' = "open" /\ startPc' = "spawn" /\ startErr' = startErr
       \/ conn' = conn /\ startPc' = "done"
          /\ startErr' = "failed to create ICMP connection for monitoring"
    /\ UNCHANGED <<appVars, status, hops, updates, closeCount, ctxDone, stopCalled, crash,
                   ttl, thops, probes, monVars, stopVars>>

\* Mutant: the monitor is started whatever discovery found
SpawnMonitorAlways ==
    /\ Running /\ startPc = "spawn"
    /\ startPc' = "done"
    /\ startErr' = ""
    /\ monPc' = "select"
    /\ EmitStatus(StatusPinging)
    /\ UNCHANGED <<appVars, hops, updates, closeCount, ctxDone, conn, stopCalled, crash,
                   ttl, thops, probes, monI, monHop, monLatency, monLoss,
                   passes, net, misses, stopVars>>

\* Start, lines 64-69. Start() succeeds: Pinging is emitted (specification).
SpawnMonitor ==
    /\ Running /\ startPc = "spawn"
    /\ startPc' = "done"
    /\ startErr' = ""
    /\ monPc' = IF Len(hops) > 0 THEN "select" ELSE monPc
    /\ EmitStatus(StatusPinging)
    /\ UNCHANGED <<appVars, hops, updates, closeCount, ctxDone, conn, stopCalled, crash,
                   ttl, thops, probes, monI, monHop, monLatency, monLoss,
                   passes, net, misses, stopVars>>

Start(hopReads, maxHops) ==
    \/ StartResolve
    \/ StartListen
    \/ TraceSendFail
    \/ TraceProbe(hopReads, maxHops)
    \/ StoreHops
    \/ OpenConn
    \/ SpawnMonitor

\* Start, lines 44-70, on a path where every probe of discovery is answered
StartAnswered(hopReads, maxHops) ==
    \/ StartResolve
    \/ StartListen
    \/ TraceSendFail
    \/ TraceProbeOn({}, hopReads, maxHops)
    \/ StoreHops
    \/ OpenConn
    \/ SpawnMonitor

-----------------------------------------------------------------------------
(* monitorLoop, pingAllHops, pingHop *)

\* monitorLoop, lines 116-117
MonExit ==
    /\ Running /\ monPc = "select"
    /\ ctxDone
    /\ monPc' = "exited"
    /\ UNCHANGED <<appVars, sharedVars, startVars, monI, monHop, monLatency, monLoss,
                   passes, net, misses, stopVars>>

\* monitorLoop, lines 118-119, and pingAllHops, lines 127-131. The ticker's
\* case is ready whether or not the context is cancelled.
MonTick(maxPasses) ==
    /\ Running /\ monPc = "select"
    /\ passes < maxPasses
    /\ passes' = passes + 1
    /\ IF Len(hops) = 0
       THEN UNCHANGED <<monPc, monI>>
       ELSE monPc' = "ping" /\ monI' = 1
    /\ UNCHANGED <<appVars, sharedVars, startVars, monHop, monLatency, monLoss, net, misses, stopVars>>

\* icmp.PacketConn: a nil or closed connection fails every call
Usable(c) == c = "open"

\* pingAllHops, line 131, and pingHop, lines 195-215: WriteTo on s.conn
MonWrite ==
    /\ Running /\ monPc = "ping"
    /\ monHop' = hops[monI]
    /\ IF Usable(conn)
       THEN \/ monPc' = "read" /\ crash' = crash
            \/ monPc' = monPc /\ crash' = "fatal: Failed to send message"
       ELSE monPc' = monPc /\ crash' = "fatal: Failed to send message: released connection"
    /\ UNCHANGED <<appVars, status, hops, updates, closeCount, ctxDone, conn, stopCalled,
                   startVars, monI, monLatency, monLoss, passes, net, misses, stopVars>>

\* Mutant: a time-exceeded message is not counted as a loss
pingResultExceededIsNoLoss(r) ==
    CASE r.kind = "timeout" -> <<0, 0>>
      [] r.kind = "parseerror" -> <<0, 0>>
      [] r.kind = "echoreply" -> <<r.lat, 0>>
      [] r.kind = "timeexceeded" -> <<0, 0>>
      [] r.kind = "unreachable" -> <<0, 100>>
      [] OTHER -> <<0, 0>>

\* pingHop, lines 221-248: the (latency, loss) returned for a read
pingResult(r) ==
    CASE r.kind = "timeout" -> <<0, 0>>
      [] r.kind = "parseerror" -> <<0, 0>>
      [] r.kind = "echoreply" -> <<r.lat, 0>>
      [] r.kind = "timeexceeded" -> <<0, 100>>
      [] r.kind = "unreachable" -> <<0, 100>>
      [] OTHER -> <<0, 0>>

\* Environment: with period > 0 the network answers the n-th monitoring probe
\* as it answered the (n - period)-th; with period = 0 it answers freely.
Periodic(period, res) ==
    LET n == (passes - 1) * Len(hops) + (monI - 1)
        k == (n % period) + 1
    IN  IF period = 0 THEN net' = net
        ELSE IF Len(net) < k THEN net' = Append(net, res)
        ELSE res = net[k] /\ net' = net

\* Environment: the network answers the first probes freely and every later
\* one as it answered the last free one (settleAfter > 0)
Settling(settleAfter, res) ==
    LET n == (passes - 1) * Len(hops) + (monI - 1)
        k == IF n < settleAfter THEN n + 1 ELSE settleAfter
    IN  IF Len(net) < k THEN net' = Append(net, res)
        ELSE res = net[k] /\ net' = net

\* Environment: the network answers freely, and the datagram pingHop read
\* last is kept
Observed(r) == net' = <<r>>

\* Environment: the kind of network the session is on
Answers(network, k, r, res) ==
    CASE network = "periodic" -> Periodic(k, res)
      [] network = "settling" -> Settling(k, res)
      [] network = "observed" -> Observed(r)

\* pingHop, lines 217-248, and pingAllHops, lines 132-163: ReadFrom on s.conn,
\* the new window and average, and the store into s.hops[i]
MonReadIn(reads, network, k) ==
    /\ Running /\ monPc = "read"
    /\ \E r \in (IF Usable(conn) THEN reads ELSE {Timeout}) :
         LET res == pingResult(r) IN
         /\ Answers(network, k, r, res)
         /\ monLatency' = res[1]
         /\ monLoss' = res[2]
         /\ hops' = [hops EXCEPT ![monI] = updatedHop(monHop, res[1], res[2])]
         /\ misses' = [misses EXCEPT ![monI] =
                          IF r.kind = "echoreply" THEN 0
                          ELSE IF @ < MaxLatencyHistory THEN @ + 1 ELSE @]
    /\ monPc' = "emit"
    /\ UNCHANGED <<appVars, status, updates, closeCount, ctxDone, conn, stopCalled, crash,
                   startVars, monI, monHop, passes, stopVars>>

\* the same, on a periodic network
MonRead(reads, period) == MonReadIn(reads, "periodic", period)

\* the same, on a network that settles
MonReadSettling(reads, settleAfter) ==
    MonReadIn(reads, "settling", settleAfter)

\* the same, every datagram read being kept
MonReadObserved(reads) == MonReadIn(reads, "observed", 0)

\* Mutant: the update carries the hop as it was before the probe
MonEmitBeforeUpdate ==
    /\ Running /\ monPc = "emit"
    /\ IF closeCount > 0
       THEN /\ crash' = "panic: send on closed channel"
            /\ UNCHANGED <<updates, monPc, monI>>
       ELSE /\ Buffered < UpdatesCap
            /\ updates' = Append(updates,
                            HopUpdate(monI - 1, monHop))
            /\ crash' = crash
            /\ IF monI < Len(hops)
               THEN monI' = monI + 1 /\ monPc' = "ping"
               ELSE monI' = monI /\ monPc' = "select"
    /\ UNCHANGED <<appVars, status, hops, closeCount, ctxDone, conn, stopCalled,
                   startVars, monHop, monLatency, monLoss, passes, net, misses, stopVars>>

\* pingAllHops, line 165: the send blocks while the buffer is full and panics
\* on a closed channel
MonEmit ==
    /\ Running /\ monPc = "emit"
    /\ IF closeCount > 0
       THEN /\ crash' = "panic: send on closed channel"
            /\ UNCHANGED <<updates, monPc, monI>>
       ELSE /\ Buffered < UpdatesCap
            /\ updates' = Append(updates,
                            HopUpdate(monI - 1, updatedHop(monHop, monLatency, monLoss)))
            /\ crash' = crash
            /\ IF monI < Len(hops)
               THEN monI' = monI + 1 /\ monPc' = "ping"
               ELSE monI' = monI /\ monPc' = "select"
    /\ UNCHANGED <<appVars, status, hops, closeCount, ctxDone, conn, stopCalled,
                   startVars, monHop, monLatency, monLoss, passes, net, misses, stopVars>>

-----------------------------------------------------------------------------
(* Stop *)

Quiet == startPc \in {"idle", "done"} /\ monPc \in {"off", "exited"}

\* history: call i still runs alone, Start() and the monitor at rest
Alone(i) == \A j \in DOMAIN stopPc : j # i => stopPc[j] \in {"idle", "done"}

StepSeq(i, next) ==
    LET ok == stopSeq.ok /\ Alone(i) /\ Quiet
                /\ (stopPc[i] # "idle" => stopSeq.mark = startPc)
    IN  [ok |-> ok, mark |-> IF ok /\ next # "done" THEN startPc ELSE "-"]

\* Stop, line 86
StopCancel(i) ==
    /\ Running /\ stopPc[i] = "idle"
    /\ ctxDone' = TRUE
    /\ stopPc' = [stopPc EXCEPT ![i] = "connCheck"]
    /\ stopSeq' = StepSeq(i, "connCheck")
    /\ UNCHANGED <<appVars, status, hops, updates, closeCount, conn, stopCalled, crash, startVars, monVars>>

\* Stop, line 87
StopConnCheck(i) ==
    /\ Running /\ stopPc[i] = "connCheck"
    /\ stopPc' = [stopPc EXCEPT ![i] = IF conn # "nil" THEN "connClose" ELSE "flagRead"]
    /\ stopSeq' = StepSeq(i, IF conn # "nil" THEN "connClose" ELSE "flagRead")
    /\ UNCHANGED <<appVars, sharedVars, startVars, monVars>>

\* Stop, line 88: Close on a nil or closed PacketConn returns an error
StopConnClose(i) ==
    /\ Running /\ stopPc[i] = "connClose"
    /\ conn' = IF conn = "open" THEN "closed" ELSE conn
    /\ stopPc' = [stopPc EXCEPT ![i] = "connNil"]
    /\ stopSeq' = StepSeq(i, "connNil")
    /\ UNCHANGED <<appVars, status, hops, updates, closeCount, ctxDone, stopCalled, crash, startVars, monVars>>

\* Stop, line 89
StopConnNil(i) ==
    /\ Running /\ stopPc[i] = "connNil"
    /\ conn' = "nil"
    /\ stopPc' = [stopPc EXCEPT ![i] = "flagRead"]
    /\ stopSeq' = StepSeq(i, "flagRead")
    /\ UNCHANGED <<appVars, status, hops, updates, closeCount, ctxDone, stopCalled, crash, startVars, monVars>>

\* Mutant: the channel is closed whatever the flag says
MayCloseAlways(flag) == TRUE

\* Stop, line 92: the guard of the close
MayClose(flag) == ~flag

\* Stop, line 92. A call that finds the stream closed returns: Stopped is
\* emitted (specification).
StopFlagRead(i) ==
    /\ Running /\ stopPc[i] = "flagRead"
    /\ stopPc' = [stopPc EXCEPT ![i] = IF MayClose(stopCalled) THEN "flagWrite" ELSE "done"]
    /\ stopSeq' = StepSeq(i, IF MayClose(stopCalled) THEN "flagWrite" ELSE "done")
    /\ IF MayClose(stopCalled) THEN status' = status ELSE EmitStatus(StatusStopped)
    /\ UNCHANGED <<appVars, hops, updates, closeCount, ctxDone, conn, stopCalled, crash,
                   startVars, monVars>>

\* Stop, line 93
StopFlagWrite(i) ==
    /\ Running /\ stopPc[i] = "flagWrite"
    /\ stopCalled' = TRUE
    /\ stopPc' = [stopPc EXCEPT ![i] = "chanClose"]
    /\ stopSeq' = StepSeq(i, "chanClose")
    /\ UNCHANGED <<appVars, status, hops, updates, closeCount, ctxDone, conn, crash, startVars, monVars>>

\* Stop, line 94: closing a closed channel panics. Otherwise the call
\* returns: Stopped is emitted (specification).
StopChanClose(i) ==
    /\ Running /\ stopPc[i] = "chanClose"
    /\ closeCount' = closeCount + 1
    /\ crash' = IF closeCount > 0 THEN "panic: close of closed channel" ELSE crash
    /\ stopPc' = [stopPc EXCEPT ![i] = "done"]
    /\ stopSeq' = StepSeq(i, "done")
    /\ IF closeCount > 0 THEN status' = status ELSE EmitStatus(StatusStopped)
    /\ UNCHANGED <<appVars, hops, updates, ctxDone, conn, stopCalled, startVars, monVars>>

Stop(i) ==
    \/ StopCancel(i)
    \/ StopConnCheck(i)
    \/ StopConnClose(i)
    \/ StopConnNil(i)
    \/ StopFlagRead(i)
    \/ StopFlagWrite(i)
    \/ StopChanClose(i)

-----------------------------------------------------------------------------
(* Callers and consumers *)

\* GetHops, lines 104-106: the slice returned is s.hops itself; it shares the
\* array that pingAllHops writes
GetHops ==
    /\ Running /\ ~view.called
    /\ view' = [called |-> TRUE, len |-> Len(hops), then |-> hops]
    /\ UNCHANGED <<sharedVars, startVars, monVars, stopVars, vmHops, vmLast, sessionVars>>

\* GetHops, line 105: what the slice that was returned holds now
Returned == SubSeq(hops, 1, view.len)

\* Hops that a list or an update may hold
SampleHops ==
    {NetworkHop("r1", <<20, 1>>, 0, <<>>),
     NetworkHop(Destination, <<10, 1>>, 0, <<10>>)}

\* The lists vm.hops may be when an update arrives: filled by earlier
\* updates, padded, or emptied by onStop
Lists == UNION {[1..m -> SampleHops \cup {NoHop}] : m \in 0..MaxList}

\* The updates that may arrive
Arriving == {HopUpdate(i, h) : i \in 0..MaxIndex, h \in SampleHops}

\* Mutant: the list is padded up to the index, not beyond it
paddedOneShort(list, index) ==
    IF Len(list) < index
    THEN list \o [k \in 1..(index - Len(list)) |-> NoHop]
    ELSE list

\* main.go, handleUpdates, lines 352-354: empty hops are appended until the
\* index exists
padded(list, index) ==
    IF Len(list) <= index
    THEN list \o [k \in 1..(index + 1 - Len(list)) |-> NoHop]
    ELSE list

\* main.go, handleUpdates, lines 352-357. (An assignment outside the list
\* would panic; padded makes the index exist.)
applyUpdate(list, update) ==
    [padded(list, update.Index) EXCEPT ![update.Index + 1] = update.Hop]

\* main.go, handleUpdates, lines 349-359: one iteration of the loop
HandleUpdate ==
    /\ \E u \in Arriving :
         /\ vmHops' = applyUpdate(vmHops, u)
         /\ vmLast' = u
    /\ UNCHANGED <<sharedVars, startVars, monVars, stopVars, view, sessionVars>>

\* main.go, onStart, lines 278-305, has run: vm.scanner is the new scanner,
\* the goroutines of Start(), handleUpdates and handleStatus are spawned.
\* onStart leaves vm.hops alone: it is empty since NewVisualMTR or onStop.
OnStarted ==
    /\ vmHops = <<>>
    /\ vmLast = HopUpdate(-1, NoHop)
    /\ vmScanner = "set"
    /\ handlerPc = "spawned"
    /\ received = 0
    /\ onStopPc = "idle"

\* main.go, onStart, lines 285-300: Start() returned an error; the goroutine
\* forgets the scanner. It does not call scanner.Stop().
OnStartFailed ==
    /\ Running /\ startPc = "done" /\ startErr \notin {"-", ""}
    /\ vmScanner = "set"
    /\ vmScanner' = "nil"
    /\ UNCHANGED <<sharedVars, startVars, monVars, stopVars, view, vmHops, vmLast,
                   handlerPc, received, onStopPc>>

\* main.go, onStop, lines 310-313: the scanner is taken out of vm.scanner
OnStopSwap ==
    /\ Running /\ onStopPc = "idle"
    /\ vmScanner' = "nil"
    /\ onStopPc' = IF vmScanner = "set" THEN "stopping" ELSE "clear"
    /\ UNCHANGED <<sharedVars, startVars, monVars, stopVars, view, vmHops, vmLast,
                   handlerPc, received>>

\* main.go, onStop, lines 315-317: scanner.Stop(), if there was a scanner
OnStopScannerStop ==
    /\ onStopPc = "stopping"
    /\ Stop(1)

\* main.go, onStop, lines 319-330: Stop() has returned; vm.hops is replaced by
\* an empty list and onStop returns
OnStopClear ==
    /\ Running
    /\ \/ onStopPc = "clear"
       \/ onStopPc = "stopping" /\ stopPc[1] = "done"
    /\ vmHops' = <<>>
    /\ onStopPc' = "returned"
    /\ UNCHANGED <<sharedVars, startVars, monVars, stopVars, view, vmLast,
                   vmScanner, handlerPc, received>>

\* main.go, handleUpdates, lines 336-344: the goroutine reads vm.scanner and
\* returns if there is none
HandleStart ==
    /\ Running /\ handlerPc = "spawned"
    /\ handlerPc' = IF vmScanner = "nil" THEN "exited" ELSE "range"
    /\ UNCHANGED <<sharedVars, startVars, monVars, stopVars, view, vmHops, vmLast,
                   vmScanner, received, onStopPc>>

\* main.go, handleUpdates, lines 349-359: one iteration of the loop, on the next
\* update in the channel. A closed channel still delivers what it buffered.
HandleNext ==
    /\ Running /\ handlerPc = "range"
    /\ received < Len(updates)
    /\ vmHops' = applyUpdate(vmHops, updates[received + 1])
    /\ vmLast' = updates[received + 1]
    /\ received' = received + 1
    /\ UNCHANGED <<sharedVars, startVars, monVars, stopVars, view,
                   vmScanner, handlerPc, onStopPc>>

\* main.go, handleUpdates, line 349: the range ends when the channel is closed
\* and empty
HandleEnd ==
    /\ Running /\ handlerPc = "range"
    /\ received = Len(updates) /\ closeCount > 0
    /\ handlerPc' = "exited"
    /\ UNCHANGED <<sharedVars, startVars, monVars, stopVars, view, vmHops, vmLast,
                   vmScanner, received, onStopPc>>

-----------------------------------------------------------------------------
(* Specifications *)

\* A session with one Stop() call at any moment and a short monitoring phase
Next ==
    \/ Start(HopReads, MaxHops)
    \/ MonExit
    \/ MonTick(MaxPasses)
    \/ MonWrite
    \/ MonRead(ShortReads, 0)
    \/ MonEmit
    \/ Stop(1)

Spec == Init /\ [][Next]_vars

\* A session to a destination that answers directly, or not at all, with
\* Stop() calls at any moment, one after the other or concurrently
NextStops ==
    \/ Start(DirectReads, MaxHops)
    \/ MonExit
    \/ MonTick(MaxPasses)
    \/ MonWrite
    \/ MonRead(ShortReads, 0)
    \/ MonEmit
    \/ \E i \in 1..MaxStops : Stop(i)

SpecStops == Init /\ [][NextStops]_vars

\* A session that is never stopped, monitored long enough to fill the windows
NextWindow ==
    \/ Start(HopReads, WindowHops)
    \/ MonTick(WindowPasses)
    \/ MonWrite
    \/ MonRead(PingReads, Period)
    \/ MonEmit

SpecWindow == Init /\ [][NextWindow]_vars

\* A session to a destination that answers directly, never stopped, on a
\* network that settles, monitored until a settled window is full
NextSettle ==
    \/ Start(DirectReads, WindowHops)
    \/ MonTick(WindowPasses)
    \/ MonWrite
    \/ MonReadSettling(PingReads, SettleAfter)
    \/ MonEmit

SpecSettle == Init /\ [][NextSettle]_vars

\* A session to a destination that answers directly, never stopped, seen from
\* outside: every datagram the monitor reads is kept, and a caller takes
\* GetHops() at some moment
NextObserved ==
    \/ Start(DirectReads, MaxHops)
    \/ MonTick(MaxPasses)
    \/ MonWrite
    \/ MonReadObserved(PingReads)
    \/ MonEmit
    \/ GetHops

SpecObserved == Init /\ [][NextObserved]_vars

\* Start() on a network that may deliver the answer to a probe after the
\* probe's deadline, during the wait for a later one
NextStale == Start(HopReads \cup LateReads, MaxHops)

SpecStale == Init /\ [][NextStale]_vars

\* A session to a destination that answers discovery directly and no
\* monitoring probe, whose updates nobody receives, monitored until the
\* buffer of s.updates is full, with one Stop() call at any moment
NextFull ==
    \/ Start(DirectReads, MaxHops)
    \/ MonExit
    \/ MonTick(FillPasses)
    \/ MonWrite
    \/ MonRead(SilentReads, 0)
    \/ MonEmit
    \/ Stop(1)

SpecFull == Init /\ [][NextFull]_vars

\* The consumer alone: handleUpdates applied to any list and any update
InitConsumer ==
    /\ NewScanner
    /\ vmHops \in Lists
    /\ vmLast = HopUpdate(-1, NoHop)
    /\ vmScanner = "nil"
    /\ handlerPc = "off"
    /\ received = 0
    /\ onStopPc = "idle"

NextConsumer == HandleUpdate

SpecConsumer == InitConsumer /\ [][NextConsumer]_vars

\* A session over a path of up to MaxTTL routers where every probe of
\* discovery is answered, whose updates nobody receives, with MaxPasses
\* monitoring passes that nothing answers
NextPath ==
    \/ StartAnswered(HopReads, MaxTTL)
    \/ MonTick(MaxPasses)
    \/ MonWrite
    \/ MonRead(SilentReads, 0)
    \/ MonEmit

SpecPath == Init /\ [][NextPath]_vars

\* The application after onStart(): a session to a destination that answers
\* discovery directly, its updates received by handleUpdates, ended by
\* onStop() at any moment or by an error of Start()
InitApp == NewScanner /\ OnStarted

NextApp ==
    \/ Start(DirectReads, MaxHops)
    \/ MonExit
    \/ MonTick(MaxPasses)
    \/ MonWrite
    \/ MonRead(SilentReads, 0)
    \/ MonEmit
    \/ OnStartFailed
    \/ OnStopSwap
    \/ OnStopScannerStop
    \/ OnStopClear
    \/ HandleStart
    \/ HandleNext
    \/ HandleEnd

SpecApp == InitApp /\ [][NextApp]_vars

-----------------------------------------------------------------------------
(* Properties *)

RECURSIVE SeqSum(_)
SeqSum(q) == IF q = <<>> THEN 0 ELSE Head(q) + SeqSum(Tail(q))

Positive(v) == v > 0

\* avg is the arithmetic mean of the strictly positive entries of window,
\* and exactly 0 when there is none
IsMeanOfPositives(avg, window) ==
    LET pos == SelectSeq(window, Positive)
    IN  IF pos = <<>> THEN avg = <<0, 1>>
        ELSE avg[2] > 0 /\ avg[1] * Len(pos) = avg[2] * SeqSum(pos)

AllStopsDone == \A i \in DOMAIN stopPc : stopPc[i] = "done"

\* C1: Stop() calls made one after the other on a Scanner with no discovery or
\* monitoring running close the updates channel exactly once, and none of them
\* panics.
C1_SequentialStopsCloseOnce ==
    stopSeq.ok =>
        /\ crash # "panic: close of closed channel"
        /\ closeCount <= 1
        /\ (\E i \in DOMAIN stopPc : stopPc[i] = "done") => closeCount = 1

\* C1 witness: every Stop() call has returned, one after the other, on a Scanner
\* whose Start() had succeeded and opened the connection
C1_Witness ==
    stopSeq.ok /\ AllStopsDone /\ closeCount = 1 /\ startErr = "" /\ conn = "nil"

\* C2: concurrent Stop() calls close the updates channel exactly once and
\* neither panics.
C2_ConcurrentStopsCloseOnce ==
    /\ crash # "panic: close of closed channel"
    /\ closeCount <= 1
    /\ AllStopsDone => closeCount = 1

\* C3: no HopUpdate is sent on the updates channel after Stop() has closed it,
\* in discovery or in monitoring.
C3_NoSendAfterClose == crash # "panic: send on closed channel"

\* C4: the monitor never writes a probe to s.conn after Stop() has released it.
C4_NoUseAfterRelease == crash # "fatal: Failed to send message: released connection"

\* C5: in every reachable state every hop's LatencyHistory has at most 60
\* entries, in s.hops and in the updates sent.
C5_WindowAtMost60 ==
    /\ \A i \in DOMAIN hops : Len(hops[i].LatencyHistory) <= 60
    /\ \A k \in DOMAIN updates : Len(updates[k].Hop.LatencyHistory) <= 60

\* C5 witness: a hop's window is full and has been updated since
C5_Witness ==
    /\ hops # <<>>
    /\ Len(hops[1].LatencyHistory) = 60
    /\ passes = 62

\* C6: a monitoring update of a hop whose window is W, with the new sample x,
\* leaves the window W \o <<x>> when Len(W) < 60 and Tail(W) \o <<x>> when
\* Len(W) = 60.
C6_WindowUpdate ==
    [][(monPc = "read" /\ monPc' = "emit") =>
          LET W == hops[monI].LatencyHistory
              x == IF monLatency' > 0 THEN monLatency' ELSE -1
          IN  /\ Len(W) < 60 => hops'[monI].LatencyHistory = W \o <<x>>
              /\ Len(W) = 60 => hops'[monI].LatencyHistory = Tail(W) \o <<x>>
              /\ Len(W) <= 60]_vars

\* C6 witness: a full window whose two oldest entries differ has been updated
C6_Witness ==
    /\ monPc = "emit"
    /\ Len(monHop.LatencyHistory) = 60
    /\ monHop.LatencyHistory[1] # monHop.LatencyHistory[2]
    /\ hops[monI].LatencyHistory = Tail(monHop.LatencyHistory) \o <<hops[monI].LatencyHistory[60]>>

\* C7: after every monitoring update of a hop the AvgLatency stored in s.hops
\* and the one emitted equal the mean of the strictly positive entries of the
\* hop's new window, and 0 when it has none.
C7_AverageAfterUpdate ==
    [][/\ (monPc = "read" /\ monPc' = "emit") =>
            IsMeanOfPositives(hops'[monI].AvgLatency, hops'[monI].LatencyHistory)
       /\ (monPc = "emit" /\ Len(updates') = Len(updates) + 1) =>
            /\ updates'[Len(updates')].Hop = hops[monI]
            /\ IsMeanOfPositives(updates'[Len(updates')].Hop.AvgLatency,
                                 updates'[Len(updates')].Hop.LatencyHistory)]_vars

\* C7 witness: an update was emitted for a window of two replies and a timeout
C7_Witness ==
    \E k \in DOMAIN updates :
        /\ updates[k].Hop.LatencyHistory = <<10, -1, 40>>
        /\ updates[k].Hop.AvgLatency = <<25, 1>>

\* C8 as stated: in every reachable state every hop's AvgLatency is the mean of
\* the strictly positive entries of its current LatencyHistory.
C8_AverageAlwaysFromWindow ==
    \A i \in DOMAIN hops : IsMeanOfPositives(hops[i].AvgLatency, hops[i].LatencyHistory)

\* C8 amended: every hop that has been monitored (its LatencyHistory is not
\* empty) has the mean of the strictly positive entries of its LatencyHistory
\* as AvgLatency; a hop not monitored yet has an empty LatencyHistory and the
\* round-trip time discovery measured as AvgLatency.
C8_AverageFromWindowOnceMonitored ==
    \A i \in DOMAIN hops :
        IF hops[i].LatencyHistory = <<>>
        THEN \E l \in TraceLatencies : hops[i].AvgLatency = <<l, 1>>
        ELSE IsMeanOfPositives(hops[i].AvgLatency, hops[i].LatencyHistory)

\* C8 witness: the first hop has been monitored, the second not yet
C8_Witness ==
    /\ Len(hops) = 2
    /\ hops[1].LatencyHistory = <<-1>>
    /\ hops[1].AvgLatency = <<0, 1>>
    /\ hops[2].LatencyHistory = <<>>
    /\ hops[2].AvgLatency = <<20, 1>>

\* C9: one discovery run sends at most 30 probes, with the hop-limits 1, 2, ...
\* in this order, and none after the first echo reply that carries the
\* session's identifier.
C9_ProbesBounded ==
    /\ Len(probes) <= 30
    /\ \A k \in DOMAIN probes :
         /\ probes[k].ttl = k
         /\ probes[k].reached => k = Len(probes)

\* C9 witness: the destination answered the probe with hop-limit 30
C9_Witness ==
    /\ startPc = "store"
    /\ Len(probes) = 30
    /\ probes[30].reached

\* C10: the k-th HopUpdate emitted by a discovery run has index k - 1.
C10_DiscoveryIndicesDense ==
    (startPc \in {"trace", "store"}) =>
        \A k \in DOMAIN updates : updates[k].Index = k - 1

\* C10 witness: discovery has returned after emitting two updates
C10_Witness ==
    /\ startPc = "store"
    /\ Len(updates) = 2
    /\ Len(thops) = 2

C12_AverageDecaysToZero ==
    \A i \in DOMAIN hops :
        /\ misses[i] >= MaxLatencyHistory => hops[i].AvgLatency = <<0, 1>>
        /\ hops[i].LatencyHistory # <<>> =>
              (hops[i].AvgLatency = <<0, 1>>
                 <=> \A k \in DOMAIN hops[i].LatencyHistory :
                        hops[i].LatencyHistory[k] <= 0)

\* two echo replies (positive average), then 60 cycles without one
C12_Witness ==
    /\ Len(hops) = 1
    /\ passes = MaxLatencyHistory + 2
    /\ Len(net) = SettleAfter
    /\ net[1][1] > 0 /\ net[2][1] > 0 /\ net[3][1] = 0
    /\ misses[1] = MaxLatencyHistory
    /\ hops[1].AvgLatency = <<0, 1>>
    /\ Len(hops[1].LatencyHistory) = MaxLatencyHistory

\* C13: once Start() has failed to resolve the hostname it has returned that
\* error, and the session has sent no HopUpdate, emitted neither Tracing nor
\* Pinging, sent no probe, opened no monitoring connection, stored no hop and
\* started no monitor, and never will.
C13_ResolutionFailure ==
    startErr = "failed to resolve hostname" =>
        /\ startPc = "done"
        /\ updates = <<>>
        /\ \A k \in DOMAIN status : status[k] \notin {StatusTracing, StatusPinging}
        /\ ttl = 0 /\ probes = <<>> /\ thops = <<>>
        /\ conn = "nil"
        /\ hops = <<>>
        /\ monPc = "off" /\ passes = 0

\* the resolution has failed, and a Stop() call has run to its end since
C13_Witness ==
    /\ startErr = "failed to resolve hostname"
    /\ stopPc[1] = "done"
    /\ closeCount = 1

\* C14: in a session that is never stopped, whenever the monitor is not inside
\* a pass (it waits for the next tick, or the process has ended) every pass it
\* began has emitted one HopUpdate per hop, with the indices 0..n-1 in
\* increasing order, after the n updates of discovery.
C14_PassEmitsOnePerHop ==
    LET n == Len(hops) IN
    (monPc # "off" /\ (monPc = "select" \/ crash # "none")) =>
        /\ Len(updates) = n + passes * n
        /\ \A p \in 1..passes : \A j \in 1..n :
               updates[n + (p - 1) * n + j].Index = j - 1

\* C15: once Stop() has cancelled the context the monitor sends no further
\* probe and begins no further pass.
C15_NoProbeAfterCancel ==
    [][ctxDone => /\ ~(monPc = "ping" /\ monPc' = "read")
                  /\ passes' = passes]_vars

\* C16: an iteration of discovery that ends after Stop() has cancelled the
\* context (its probe was in flight at the cancellation, or sent after it) is
\* the last one: performTraceroute does not go on to the next hop-limit, and
\* returns without a crash.
C16_NoHigherProbeAfterCancel ==
    [][(ctxDone /\ Len(probes') > Len(probes)) =>
          (startPc' # "trace" /\ crash' = "none")]_vars

\* C17: in a session that is never stopped, no probe of the monitor ends the
\* process, whether its send fails, it times out or its reply cannot be parsed.
C17_ProbeFailureNotFatal ==
    monPc \in {"ping", "read", "emit"} => crash = "none"

\* C18: the monitor goroutine has been started exactly when Start() has
\* returned nil with at least one discovered hop stored; it is not started
\* while Start() runs, after Start() returned an error, or with no hop.
C18_MonitorIffSuccessWithHops ==
    monPc # "off" <=> (startPc = "done" /\ startErr = "" /\ Len(hops) > 0)

\* Start() has succeeded with two hops and the monitor is in its first pass
C18_Witness ==
    /\ startPc = "done" /\ startErr = ""
    /\ Len(hops) = 2
    /\ monPc = "ping" /\ passes = 1

FromStart(st) == st \in {StatusTracing, StatusPinging}

\* C19: Start() emits nothing before discovery can begin, has emitted Tracing
\* and nothing else of its own while discovery runs and until it is about to
\* return, and has emitted Tracing and then Pinging, once each and in that
\* order, when it has returned nil.
C19_TracingThenPinging ==
    LET own == SelectSeq(status, FromStart) IN
    /\ startPc \in {"idle", "listen"} => own = <<>>
    /\ startPc \in {"trace", "store", "open", "spawn"} => own = <<StatusTracing>>
    /\ (startPc = "done" /\ startErr = "") => own = <<StatusTracing, StatusPinging>>

\* Start() has returned nil after a discovery of two hops, not stopped
C19_Witness ==
    /\ startPc = "done" /\ startErr = ""
    /\ Len(hops) = 2
    /\ status = <<StatusTracing, StatusPinging>>

\* C20: a Stop() call that has returned has emitted Stopped, and no Tracing or
\* Pinging follows a Stopped in the status stream.
C20_StoppedIsLast ==
    /\ \A i \in DOMAIN stopPc :
          stopPc[i] = "done" => \E k \in DOMAIN status : status[k] = StatusStopped
    /\ \A k \in DOMAIN status : \A j \in DOMAIN status :
          (status[k] = StatusStopped /\ j > k) => status[j] = StatusStopped

\* C21: the sequence GetHops() returned stays what it was when it was
\* returned, whatever the monitor does afterwards.
C21_GetHopsIsSnapshot ==
    view.called => Returned = view.then

C23_AnswerMatchesProbe ==
    \A k \in DOMAIN probes :
        probes[k].answer # "none" => probes[k].seq = probes[k].ttl

\* C24: in monitoring, the sample recorded for hop i is positive only when the
\* datagram read is an echo reply that carries the session's identifier and
\* was sent by hop i's address.
C24_SampleOnlyFromOwnReply ==
    (monPc = "emit" /\ net # <<>>) =>
        LET window == hops[monI].LatencyHistory IN
        window[Len(window)] > 0 =>
            /\ net[1].kind = "echoreply"
            /\ net[1].id = SessionID
            /\ net[1].peer = hops[monI].IP

\* C25: a monitor that is blocked in its send on the full updates buffer does
\* not crash, whatever Stop() does meanwhile.
C25_BlockedMonitorSurvivesStop ==
    (monPc = "emit" /\ Len(updates) = UpdatesCap) => crash = "none"

\* C26: an iteration of discovery whose read is neither a time-exceeded
\* message nor an echo reply with the session's identifier (a time out, an
\* unparseable datagram, another ICMP type, a foreign echo reply) adds no hop,
\* sends no HopUpdate and goes on to the next hop-limit; every other
\* iteration adds one hop; so the hops collected are as many as the
\* hop-limits answered.
C26_QuietProbesAddNothing ==
    [][Len(probes') = Len(probes) + 1 =>
          LET p == probes'[Len(probes')] IN
          /\ p.answer = "none" =>
                /\ thops' = thops
                /\ updates' = updates
                /\ ttl' = ttl + 1
                /\ startPc' = IF ttl < MaxTTL THEN "trace" ELSE "store"
          /\ p.answer # "none" => Len(thops') = Len(thops) + 1
          /\ Len(thops') =
                Cardinality({k \in DOMAIN probes' : probes'[k].answer # "none"})]_vars

\* a discovery of 30 probes of which only the third was answered
C26_Witness ==
    /\ startPc = "store"
    /\ Len(probes) = MaxTTL
    /\ \A k \in DOMAIN probes : probes[k].answer # "none" <=> k = 3
    /\ Len(thops) = 1
    /\ Len(updates) = 1

\* C27: whenever a HopUpdate with the index i has been sent, the sequence that
\* GetHops() would return has more than i hops.
C27_GetHopsCoversUpdates ==
    \A k \in DOMAIN updates : Len(hops) > updates[k].Index

\* C28: when the monitor sends the HopUpdate of hop i, the hop it carries is
\* the hop already stored at index i of s.hops, and the send leaves s.hops as
\* it is: the store came first.
C28_StoredThenEmitted ==
    [][(monPc = "emit" /\ Len(updates') = Len(updates) + 1) =>
          LET u == updates'[Len(updates')] IN
          /\ u.Index = monI - 1
          /\ u.Hop = hops[u.Index + 1]
          /\ hops' = hops]_vars

\* the second hop has been probed, stored and emitted in the first pass
C28_Witness ==
    /\ passes = 1 /\ monPc = "select"
    /\ Len(hops) = 2 /\ Len(updates) = 4
    /\ updates[4].Index = 1
    /\ updates[4].Hop = hops[2]
    /\ hops[2].LatencyHistory = <<20>>

\* C29: once the monitor is started no step changes the number of hops or the
\* address of a hop, and a step changes at most the hop the pass is at.
C29_MonitoringKeepsPath ==
    [][monPc # "off" =>
          /\ Len(hops') = Len(hops)
          /\ \A j \in DOMAIN hops :
                /\ hops'[j].IP = hops[j].IP
                /\ j # monI => hops'[j] = hops[j]]_vars

\* a pass over a router and the destination has updated both
C29_Witness ==
    /\ passes = 1 /\ monPc = "select"
    /\ Len(hops) = 2
    /\ hops[1].IP = "r1" /\ hops[2].IP = Destination
    /\ Len(hops[1].LatencyHistory) = 1 /\ Len(hops[2].LatencyHistory) = 1

\* C30: after handleUpdates has processed HopUpdate(i, h) on a list of length
\* L, the list has the length max(L, i+1), its entry i is h, its entries
\* L..i-1 are empty hops, and every other entry it had is unchanged.
C30_SparseUpdateApplied ==
    [][vmLast'.Index >= 0 =>
          LET i == vmLast'.Index
              L == Len(vmHops)
          IN  /\ Len(vmHops') = IF L > i + 1 THEN L ELSE i + 1
              /\ vmHops'[i + 1] = vmLast'.Hop
              /\ \A k \in (L + 1)..i : vmHops'[k] = NoHop
              /\ \A k \in 1..L : k # i + 1 => vmHops'[k] = vmHops[k]]_vars

\* an update with the index 3 has arrived on a list of one hop
C30_Witness ==
    /\ vmLast.Index = 3
    /\ Len(vmHops) = 4
    /\ vmHops[1] \in SampleHops
    /\ vmHops[2] = NoHop /\ vmHops[3] = NoHop
    /\ vmHops[4] = vmLast.Hop

\* C31: while discovery runs and nobody receives, the buffer of s.updates never
\* fills: it holds at most one update per hop-limit probed, at most MaxTTL,
\* fewer than UpdatesCap, so the select that emits a hop always has a ready case
C31_DiscoveryNeverBlocks ==
    startPc \in {"trace", "store"} =>
        /\ Len(updates) = Len(thops)
        /\ Len(updates) <= Len(probes)
        /\ Len(probes) <= MaxTTL
        /\ Len(updates) < UpdatesCap
        /\ SelectReady # {}

\* C31 witness: discovery has found a hop at each of the MaxTTL hop-limits and
\* emitted each one with no reader
C31_Witness ==
    /\ startPc = "store"
    /\ Len(probes) = MaxTTL
    /\ Len(thops) = MaxTTL
    /\ Len(updates) = MaxTTL
    /\ crash = "none"

\* C32: once Stop() and Start() have both returned, in either order, the
\* session holds no open transport handle; in particular the connection that
\* Start() opens for monitoring after a Stop() that ran during discovery
C32_NoHandleLeftOpen ==
    (startPc = "done" /\ stopPc[1] = "done" /\ crash = "none") => conn # "open"

\* C33: after an onStop() that stopped the session's scanner has returned, the
\* list vm.hops stays empty: no update of the stopped session, still buffered
\* in its channel, is applied to it
C33_ListStaysEmptyAfterStop ==
    (onStopPc = "returned" /\ stopPc[1] = "done") => vmHops = <<>>

\* C34: a handleUpdates goroutine is never left waiting for good once its
\* session has ended by an error of Start(): while it waits on the open
\* channel of such a session, the application still holds the scanner or is
\* stopping it, so that the channel will be closed and the goroutine ends
C34_EndedSessionReleasesHandler ==
    (/\ Running /\ handlerPc = "range" /\ closeCount = 0
     /\ startPc = "done" /\ startErr \notin {"-", ""})
        => (vmScanner = "set" \/ onStopPc = "stopping")

====
